---- MODULE Spec2Model ----
(***************************************************************************)
(* Model of ESP8266_Serial_Monitor.ino: the ring log of serial lines, the  *)
(* line assembler of loop(), the three-button interaction state machine,   *)
(* the baud-rate change and the websocket / MQTT command handlers.         *)
(*                                                                         *)
(* One loop() iteration is split at the places where the code reads its    *)
(* inputs; pc names the position inside loop():                            *)
(*   "start"  -> programMS = millis()                                      *)
(*   "net"    -> websocketServer.loop() / mqtt_client.loop() callbacks     *)
(*   "flush"  -> idle-timeout flush of sr.incomeBuffer                     *)
(*   "serial" -> draining Serial.read()                                    *)
(*   "button" -> u8g2.getMenuEvent() and the state machine                 *)
(*   "dismiss"-> leaving PROGRAM_ERROR after SHOW_ERROR_MS                 *)
(* Characters are their ASCII codes, C strings are sequences of codes.     *)
(***************************************************************************)
EXTENDS Integers, Sequences, FiniteSets, TLC

\* ---------------------------------------------------------------- constants
DISPLAY_WIDTH_PX == 128
ROW_LENGTH == DISPLAY_WIDTH_PX \div 4
SERIAL_BUFFER_ROWS == 5 * 8
FAST_CLICKING_MS == 300
SERIAL_MESSAGE_TIMEOUT == 500
DEFAULT_BAUD_RATE == 115200
SHOW_ERROR_MS == 5000
MQTT_MAX_PAYLOAD_LENGTH == ROW_LENGTH - 2

\* uint8_t arithmetic
Pow8 == 256
U8(x) == x % Pow8

\* uint32_t time stamps: <<high half, low half>> of 16 bits each, because the
\* values of millis() do not fit the integers of the model checker
Pow16 == 65536
u32(n) == <<n \div Pow16, n % Pow16>>
\* a + n modulo 2^32, for 0 <= n < 2^31
u32add(a, n) ==
  LET lo == a[2] + (n % Pow16)
  IN <<(a[1] + (n \div Pow16) + (lo \div Pow16)) % Pow16, lo % Pow16>>
\* a - b modulo 2^32
u32sub(a, b) ==
  <<(a[1] - b[1] - (IF a[2] < b[2] THEN 1 ELSE 0)) % Pow16, (a[2] - b[2]) % Pow16>>
\* comparison of a uint32_t with a constant 0 <= n < 2^31
u32gt(a, n) == a[1] >= Pow16 \div 2 \/ a[1] * Pow16 + a[2] > n
u32lt(a, n) == a[1] < Pow16 \div 2 /\ a[1] * Pow16 + a[2] < n

baudRateList == <<1200, 2400, 4800, 9600, 19200, 38400, 57600, 115200>>
baudRateListCount == Len(baudRateList)

asciiList ==
  [i \in 1..26 |-> 64 + i] \o [i \in 1..26 |-> 96 + i] \o [i \in 1..10 |-> 47 + i]
  \o <<46, 44, 33, 63, 34, 64, 35, 36, 37, 38, 39>>
  \o <<40, 41, 91, 93, 123, 125, 43, 45, 42, 47, 61, 60, 62>>
  \o <<58, 59, 94, 126, 95, 92, 124>>
  \o <<32, 8, 24, 4>>
asciiListCount == Len(asciiList)

\* enum TprogramStates
TprogramStates ==
  {"PROGRAM_RECEIVING", "PROGRAM_BDR", "PROGRAM_LETTER", "PROGRAM_SCROLLING", "PROGRAM_ERROR"}

\* ------------------------------------------------------------------- bounds
\* total number of external events (serial bursts, button clicks, network
\* events) in one behaviour
MaxInputs == 3
\* number of loop() iterations in one behaviour of Spec
MaxLoops == 3
\* number of websocket clients that can be connected at once
MaxClients == 1
\* total number of external events in one behaviour of SpecLive
MaxLiveInputs == 2
\* external events of a behaviour of SpecKeys
MaxKeyInputs == 5

\* ------------------------------------------------------------ input domains
\* time between two consecutive reads of millis() at the top of loop()
Deltas == {250, 5250}
\* time between the top of loop() and a millis() read inside a handler
MidDeltas == {0, 250}
\* the same for the specification with fairness: the clock wraps modulo 2^32
LiveDeltas == {1073741824}
\* value of millis() when setup() returns
StartClocks == {<<Pow16 - 1, Pow16 - 500>>}
\* baud rates a valid EEPROM record can hold at boot
InitBauds == {9600}
\* rqV of a websocket "bdr" request (0: missing or not a number), MQTT payload
BaudInputs == {0, 9600, 57600}
\* the devices: <<wifiON, built with USE_MQTT, number of lines already
\* received when the behaviour starts, websocket clients already connected>>
Devices ==
  {<<0, FALSE, 0, {}>>, <<1, FALSE, 39, {0}>>, <<1, FALSE, 44, {0}>>, <<1, TRUE, 0, {}>>}

LiveDevices == {<<1, FALSE, 39, {0}>>, <<1, TRUE, 0, {}>>}

Rep(c, n) == [i \in 1..n |-> c]
\* texts of a websocket "inp" request or an MQTT inp payload
TextInputs == {<<>>, <<72, 105>>, Rep(121, ROW_LENGTH - 1)}
\* bytes available on the serial line in one loop() iteration
SerialBursts ==
  { <<97>>, <<100, 10>>, <<101, 13, 10, 102>>, Rep(103, ROW_LENGTH) }
\* what a read past the end of baudRateList can return
OutOfBoundsBaud == {1145258561}

\* ----------------------------------------------------------------- variables
VARIABLES
  sr,               \* TSerialBuffer: buffer, incomeBuffer, sendBuffer, writeIndex, readIndex, lastMessageMS
  dsp,              \* TDisplaySetting: menuIndex, menuStep
  baudRate,         \* setting->baudRate
  flash,            \* baud rate of the record committed to EEPROM
  EEPROM,           \* bytes of the TEeprom record in the flash memory, <<>> when it holds none
  wifiON,           \* 1 = connected to wifi, 0 = offline
  useMqtt,          \* TRUE when built with USE_MQTT
  clients,          \* connected websocket clients
  programMS,        \* time stamp taken at the top of loop()
  errorEnterMS,     \* time when error occured
  lastActionMS,     \* last time user pressed a button
  lastMenuAction,   \* last pressed button
  strVar,           \* String holding the last serialized JSON
  errStr,           \* runtime error text
  programState,
  beforeErrorState,
  clock,            \* value millis() returned last
  pc,               \* position in loop()
  out,              \* messages sent to subscribers by the last step
  tx,               \* bytes written to the serial line by the last step
  eepromLog,        \* EEPROM commits attempted by the last step
  nAppends,         \* history: appends to the ring log since the last reset
  lastLine,         \* history: argument of the last addToSerialBuffer
  ev,               \* history: the last step and its input
  budget,           \* number of external events that can still arrive
  loops             \* history: number of loop() iterations so far, up to MaxLoops

vars == <<sr, dsp, baudRate, flash, EEPROM, wifiON, useMqtt, clients, programMS, errorEnterMS,
          lastActionMS, lastMenuAction, strVar, errStr, programState, beforeErrorState,
          clock, pc, out, tx, eepromLog, nAppends, lastLine, ev, budget, loops>>

\* the program state as one record, so that the C functions below are
\* operators from state to state
State ==
  [sr |-> sr, dsp |-> dsp, baudRate |-> baudRate, flash |-> flash, EEPROM |-> EEPROM,
   wifiON |-> wifiON,
   useMqtt |-> useMqtt, clients |-> clients, programMS |-> programMS,
   errorEnterMS |-> errorEnterMS, lastActionMS |-> lastActionMS,
   lastMenuAction |-> lastMenuAction, strVar |-> strVar, errStr |-> errStr,
   programState |-> programState, beforeErrorState |-> beforeErrorState,
   clock |-> clock, dt |-> 0, out |-> <<>>, tx |-> <<>>, eepromLog |-> <<>>,
   nAppends |-> nAppends, lastLine |-> lastLine]

Commit(w, nextPc, used, event) ==
  /\ sr' = w.sr /\ dsp' = w.dsp /\ baudRate' = w.baudRate /\ flash' = w.flash
  /\ EEPROM' = w.EEPROM
  /\ wifiON' = w.wifiON /\ useMqtt' = w.useMqtt /\ clients' = w.clients
  /\ programMS' = w.programMS /\ errorEnterMS' = w.errorEnterMS
  /\ lastActionMS' = w.lastActionMS /\ lastMenuAction' = w.lastMenuAction
  /\ strVar' = w.strVar /\ errStr' = w.errStr
  /\ programState' = w.programState /\ beforeErrorState' = w.beforeErrorState
  /\ clock' = w.clock /\ out' = w.out /\ tx' = w.tx /\ eepromLog' = w.eepromLog
  /\ nAppends' = w.nAppends /\ lastLine' = w.lastLine
  /\ pc' = nextPc
  /\ ev' = event
  /\ budget' = budget - used
  /\ loops' = IF nextPc = "start" /\ loops < MaxLoops THEN loops + 1 ELSE loops

\* ------------------------------------------------------- memory of sr.buffer
\* A row of sr.buffer is char[ROW_LENGTH+1]; sr.buffer[i] below is the content
\* of row i up to its first '\0' or, when the row has none, all its
\* ROW_LENGTH+1 bytes.  The rows are contiguous and sr.incomeBuffer follows
\* the last one (struct TSerialBuffer), so a C string that starts in a row
\* without terminator runs on into the next row.
Rows == 0..(SERIAL_BUFFER_ROWS - 1)
RowSize == ROW_LENGTH + 1

RECURSIVE cstr(_, _)
cstr(s, i) ==
  IF i >= SERIAL_BUFFER_ROWS THEN s.incomeBuffer
  ELSE IF Len(s.buffer[i]) < RowSize THEN s.buffer[i]
  ELSE s.buffer[i] \o cstr(s, i + 1)

\* strcpy(sr.buffer[idx], msg): a msg longer than ROW_LENGTH writes past the
\* row, into the next row or into sr.incomeBuffer
strcpyRow(s, idx, msg) ==
  IF Len(msg) <= ROW_LENGTH THEN [s EXCEPT !.buffer[idx] = msg]
  ELSE LET head == SubSeq(msg, 1, RowSize)
           rest == SubSeq(msg, RowSize + 1, Len(msg))
       IN IF idx + 1 < SERIAL_BUFFER_ROWS
          THEN [s EXCEPT !.buffer[idx] = head, !.buffer[idx + 1] = rest]
          ELSE [s EXCEPT !.buffer[idx] = head, !.incomeBuffer = rest]

\* ------------------------------------------------------------ JSON messages
NoMsg == [rsT |-> "", outT |-> "", outV |-> <<>>, outM |-> "", rsV |-> 0]
LogMsg(outT, text, outM) == [NoMsg EXCEPT !.rsT = "out", !.outT = outT, !.outV = text, !.outM = outM]
BdrMsg(br) == [NoMsg EXCEPT !.rsT = "bdr", !.rsV = br]
TextMsg(txt) == [NoMsg EXCEPT !.rsT = txt]

\* websocketServer.broadcastTXT / sendTXT, mqtt_client.publish
Send(w, ch, num, payload) ==
  [w EXCEPT !.out = Append(@, [ch |-> ch, num |-> num, payload |-> payload])]
connectedClients(w) == Cardinality(w.clients)

\* --------------------------------------------------------------- C functions
\* millis(): w.dt is the time that has passed since the last call; the
\* state after the call has the value returned in clock
millis(w) == [w EXCEPT !.clock = u32add(@, w.dt), !.dt = 0]
\* d ms pass
Tick(w, d) == [w EXCEPT !.dt = @ + d]

switchToError(w, err) ==
  LET w1 == millis(w)
  IN [w1 EXCEPT !.beforeErrorState = w.programState,
                !.programState = "PROGRAM_ERROR",
                !.errorEnterMS = w1.clock,
                !.errStr = err]

\* the bits of a byte and of a uint32_t, most significant first
bits8(c) == [k \in 1..8 |-> (c \div 2^(8 - k)) % 2]
byte(b, from) ==
  b[from] * 128 + b[from + 1] * 64 + b[from + 2] * 32 + b[from + 3] * 16
  + b[from + 4] * 8 + b[from + 5] * 4 + b[from + 6] * 2 + b[from + 7]
\* the four bytes of a uint32_t in memory (little endian), from its bits
\* and from its value, and the value of four bytes
bytesOfBits(b) == <<byte(b, 25), byte(b, 17), byte(b, 9), byte(b, 1)>>
bytesOf(n) ==
  <<n % Pow8, (n \div Pow8) % Pow8, (n \div Pow16) % Pow8, n \div (Pow16 * Pow8)>>
valueOf(d) == d[1] + Pow8 * d[2] + Pow16 * d[3] + Pow16 * Pow8 * d[4]
bitsOfBytes(d) == bits8(d[4]) \o bits8(d[3]) \o bits8(d[2]) \o bits8(d[1])

\* 0x04c11db7
Polynomial == bits8(4) \o bits8(193) \o bits8(29) \o bits8(183)
\* one turn of the inner loop of calculateCRC32 for the bit i of c (the test
\* of the length in crcByte only makes the model checker compute each
\* intermediate value before it goes on)
crcBit(crc, ci) ==
  LET bit == (crc[1] + ci) % 2
      shifted == Tail(crc) \o <<0>>
  IN IF bit = 1 THEN [k \in 1..32 |-> (shifted[k] + Polynomial[k]) % 2] ELSE shifted
RECURSIVE crcByte(_, _, _)
crcByte(crc, c, i) ==
  IF i > 8 THEN crc
  ELSE LET x == crcBit(crc, bits8(c)[i])
       IN IF Len(x) = 32 THEN crcByte(x, c, i + 1) ELSE x
RECURSIVE crcLoop(_, _)
crcLoop(crc, data) ==
  IF data = <<>> THEN crc ELSE crcLoop(crcByte(crc, Head(data), 1), Tail(data))
\* calculateCRC32(data, length): the result as 32 bits
calculateCRC32(data) == crcLoop([k \in 1..32 |-> 1], data)

\* the bytes of the struct eeprom with its crc32 field set by saveEEPROM
TEeprom(br) == bytesOfBits(calculateCRC32(bytesOf(br))) \o bytesOf(br)

\* saveEEPROM: ok is the result of EEPROM.commit()
saveEEPROM(w, ok) ==
  [w EXCEPT !.eepromLog = Append(@, [baudRate |-> w.baudRate, ok |-> ok]),
            !.flash = IF ok THEN w.baudRate ELSE @,
            !.EEPROM = IF ok THEN TEeprom(w.baudRate) ELSE @]

\* resetEEPROM without the save
resetEEPROMNoSave(w, ok) == [w EXCEPT !.baudRate = DEFAULT_BAUD_RATE]

resetEEPROM(w, ok) == saveEEPROM([w EXCEPT !.baudRate = DEFAULT_BAUD_RATE], ok)

\* setup(), the load of the settings: EEPROM.percentUsed() is negative when
\* the flash memory holds no record
loadSettings(w, ok) ==
  IF w.EEPROM # <<>>
  THEN LET crc == calculateCRC32(SubSeq(w.EEPROM, 5, 8))
       IN IF crc # bitsOfBytes(SubSeq(w.EEPROM, 1, 4))
          THEN resetEEPROM(w, ok)
          ELSE [w EXCEPT !.baudRate = valueOf(SubSeq(w.EEPROM, 5, 8))]
  ELSE resetEEPROM(w, ok)

resetSerialBuffer(w) ==
  LET w0 == millis(w)
      w1 == [w0 EXCEPT !.sr.incomeBuffer = <<>>,
                      !.sr.writeIndex = 0,
                      !.sr.readIndex = SERIAL_BUFFER_ROWS - 1,
                      !.sr.lastMessageMS = w0.clock,
                      !.sr.buffer = [i \in Rows |-> <<>>],
                      !.nAppends = 0,
                      !.lastLine = <<>>]
  IN IF w1.wifiON = 1 /\ connectedClients(w1) > 0
     THEN Send([w1 EXCEPT !.strVar = LogMsg("full", <<>>, "R")],
               "ws_broadcast", -1, LogMsg("full", <<>>, "R"))
     ELSE w1

\* the notification part of changeBaudRate and addToSerialBuffer
notify(w, msg) ==
  IF w.wifiON = 1
  THEN LET w1 == IF connectedClients(w) > 0
                 THEN Send([w EXCEPT !.strVar = msg], "ws_broadcast", -1, msg)
                 ELSE w
       IN IF w1.useMqtt THEN Send(w1, "mqtt_rspn", -1, w1.strVar) ELSE w1
  ELSE w

\* changeBaudRate without the comparison with the active rate
changeBaudRateAlways(w, br, ok) ==
  LET a == saveEEPROM([w EXCEPT !.baudRate = br], ok)
      b == IF ok THEN a ELSE switchToError(a, "Error during EEPROM saving")
  IN notify(resetSerialBuffer(b), BdrMsg(br))

\* changeBaudRate giving the change up when the EEPROM commit fails
changeBaudRateRollback(w, br, ok) ==
  LET w1 == IF br # w.baudRate
            THEN LET a == saveEEPROM([w EXCEPT !.baudRate = br], ok)
                 IN IF ok THEN resetSerialBuffer(a)
                    ELSE switchToError([a EXCEPT !.baudRate = w.baudRate],
                                       "Error during EEPROM saving")
            ELSE w
  IN notify(w1, BdrMsg(br))

changeBaudRate(w, br, ok) ==
  LET w1 == IF br # w.baudRate
            THEN LET a == saveEEPROM([w EXCEPT !.baudRate = br], ok)
                     b == IF ok THEN a ELSE switchToError(a, "Error during EEPROM saving")
                 IN resetSerialBuffer(b)
            ELSE w
  IN notify(w1, BdrMsg(br))

\* addToSerialBuffer with readIndex following the written slot in every mode
addToSerialBufferAlwaysTail(w, ref, txt, msgType) ==
  LET msg == IF ref = "incomeBuffer" THEN w.sr.incomeBuffer ELSE txt
      idx == w.sr.writeIndex
      s1 == strcpyRow(w.sr, idx, msg)
      s2 == IF ref = "incomeBuffer" THEN [s1 EXCEPT !.incomeBuffer = <<>>] ELSE s1
      s4 == [s2 EXCEPT !.readIndex = idx, !.writeIndex = (idx + 1) % SERIAL_BUFFER_ROWS]
      w1 == [w EXCEPT !.sr = s4, !.nAppends = @ + 1, !.lastLine = msg]
  IN notify(w1, LogMsg("inc", cstr(s4, idx), IF msgType = 1 THEN "W" ELSE "R"))

\* addToSerialBuffer leaving readIndex where it is in every mode
addToSerialBufferNoFollow(w, ref, txt, msgType) ==
  LET msg == IF ref = "incomeBuffer" THEN w.sr.incomeBuffer ELSE txt
      idx == w.sr.writeIndex
      s1 == strcpyRow(w.sr, idx, msg)
      s2 == IF ref = "incomeBuffer" THEN [s1 EXCEPT !.incomeBuffer = <<>>] ELSE s1
      s4 == [s2 EXCEPT !.writeIndex = (idx + 1) % SERIAL_BUFFER_ROWS]
      w1 == [w EXCEPT !.sr = s4, !.nAppends = @ + 1, !.lastLine = msg]
  IN notify(w1, LogMsg("inc", cstr(s4, idx), IF msgType = 1 THEN "W" ELSE "R"))

\* addToSerialBuffer(msg, msgType): ref names the buffer msg points to
\* ("incomeBuffer" for sr.incomeBuffer, "txt" for a local array)
addToSerialBuffer(w, ref, txt, msgType) ==
  LET msg == IF ref = "incomeBuffer" THEN w.sr.incomeBuffer ELSE txt
      idx == w.sr.writeIndex
      s1 == strcpyRow(w.sr, idx, msg)
      s2 == IF ref = "incomeBuffer" THEN [s1 EXCEPT !.incomeBuffer = <<>>] ELSE s1
      s3 == IF w.programState # "PROGRAM_SCROLLING" THEN [s2 EXCEPT !.readIndex = idx] ELSE s2
      s4 == [s3 EXCEPT !.writeIndex = (idx + 1) % SERIAL_BUFFER_ROWS]
      w1 == [w EXCEPT !.sr = s4, !.nAppends = @ + 1, !.lastLine = msg]
  IN notify(w1, LogMsg("inc", cstr(s4, idx), IF msgType = 1 THEN "W" ELSE "R"))

\* writeToSerial emptying sr.sendBuffer whatever msg points to
writeToSerialClearsKeyboard(w, ref, txt) ==
  LET msg == IF ref = "sendBuffer" THEN w.sr.sendBuffer ELSE txt
  IN IF Len(msg) > 0
     THEN LET w1 == [w EXCEPT !.tx = @ \o msg \o <<13, 10>>, !.sr.sendBuffer = <<>>]
          IN addToSerialBuffer(w1, "txt", <<62, 32>> \o msg, 1)
     ELSE w

\* writeToSerial(msg): ref is "sendBuffer" for sr.sendBuffer, "txt" for a local array
writeToSerial(w, ref, txt) ==
  LET msg == IF ref = "sendBuffer" THEN w.sr.sendBuffer ELSE txt
  IN IF Len(msg) > 0
     THEN LET w1 == [w EXCEPT !.tx = @ \o msg \o <<13, 10>>,
                              !.sr.sendBuffer = IF ref = "sendBuffer" THEN <<>> ELSE @]
          IN addToSerialBuffer(w1, "txt", <<62, 32>> \o msg, 1)
     ELSE w

\* ------------------------------------------------------ websocket callback
\* the replay loop of WStype_CONNECTED:
\*   for (uint8_t i = sr.writeIndex+1; i != sr.writeIndex; i = (i+SERIAL_BUFFER_ROWS+1)%SERIAL_BUFFER_ROWS)
\* sr.buffer[SERIAL_BUFFER_ROWS] is the address of sr.incomeBuffer
RECURSIVE replay(_, _, _, _)
replay(w, num, i, firstMsg) ==
  IF i = w.sr.writeIndex THEN w
  ELSE LET text == cstr(w.sr, i)
           nxt == (i + SERIAL_BUFFER_ROWS + 1) % SERIAL_BUFFER_ROWS
       IN IF Len(text) > 0
          THEN LET m == LogMsg(IF firstMsg = 1 THEN "full" ELSE "inc", text, "R")
               IN replay(Send([w EXCEPT !.strVar = m], "ws_send", num, m), num, nxt, 0)
          ELSE replay(w, num, nxt, firstMsg)

wsConnected(w, num) ==
  LET w1 == replay(w, num, U8(w.sr.writeIndex + 1), 1)
      m == BdrMsg(w1.baudRate)
  IN Send([w1 EXCEPT !.strVar = m], "ws_send", num, m)

\* strncpy(txt, msg, n) for a msg shorter than n; a longer msg leaves txt
\* without terminator and is not among TextInputs
strncpy(msg, n) == IF Len(msg) < n THEN msg ELSE SubSeq(msg, 1, n)

\* WStype_TEXT; req.kind is "malformed" when deserializeJson fails, else the
\* value of rqT ("bdr", "inp", or anything else as "unknown")
wsText(w, num, req, ok) ==
  IF req.kind = "malformed" THEN switchToError(w, "Error during JSON parsing")
  ELSE IF req.kind = "bdr" THEN changeBaudRate(w, req.br, ok)
  ELSE IF req.kind = "bdrNoValue" THEN changeBaudRate(w, 0, ok)
  ELSE IF req.kind = "inp" THEN writeToSerial(w, "txt", strncpy(req.text, ROW_LENGTH))
  ELSE switchToError(Send(w, "ws_send", num, TextMsg("ERROR - Received not recognised request")),
                     "Error ws unknown request")

\* --------------------------------------------------------------- MQTT callback
\* req.kind: "inp", "bdr", "unknown" (another token of at most 6 characters),
\* "wrong" (a token longer than 6 characters)
mqttCallback(w, req, ok) ==
  LET payloadLength == IF Len(req.text) > MQTT_MAX_PAYLOAD_LENGTH - 1
                       THEN MQTT_MAX_PAYLOAD_LENGTH - 1 ELSE Len(req.text)
      payloadMessage == SubSeq(req.text, 1, payloadLength)
  IN IF req.kind = "wrong"
     THEN switchToError(Send(w, "mqtt_live", -1, TextMsg("ERROR MQTT wrong parameters for topics")),
                        "ERROR MQTT wrong parameters")
     ELSE IF req.kind = "inp" THEN writeToSerial(w, "txt", payloadMessage)
     ELSE IF req.kind = "bdr" THEN changeBaudRate(w, req.br, ok)
     ELSE switchToError(Send(w, "mqtt_live", -1,
                             TextMsg("ERROR - Unknown MQTT command, supported: inp, bdr")),
                        "Error unknown MQTT command")

\* requests a client can send: text that is not JSON ("malformed"), a request
\* with another rqT ("unknown"), {"rqT":"bdr"} without rqV ("bdrNoValue":
\* requestJSON["rqV"] converts to 0), "bdr" and "inp" requests
WsRequests ==
  {[kind |-> "malformed", br |-> 0, text |-> <<>>], [kind |-> "unknown", br |-> 0, text |-> <<>>],
   [kind |-> "bdrNoValue", br |-> 0, text |-> <<>>]}
  \cup {[kind |-> "bdr", br |-> b, text |-> <<>>] : b \in BaudInputs}
  \cup {[kind |-> "inp", br |-> 0, text |-> t] : t \in TextInputs}
MqttRequests ==
  {[kind |-> "wrong", br |-> 0, text |-> <<>>], [kind |-> "unknown", br |-> 0, text |-> <<>>]}
  \cup {[kind |-> "bdr", br |-> b, text |-> <<>>] : b \in BaudInputs \ InitBauds}
  \cup {[kind |-> "inp", br |-> 0, text |-> t] : t \in TextInputs \ {<<>>}}

\* -------------------------------------------------------------- loop(): serial
\* the flush of a non-empty income buffer without the test of the idle time
idleFlushAtOnce(w) ==
  IF Len(w.sr.incomeBuffer) > 0 THEN addToSerialBuffer(w, "incomeBuffer", <<>>, 0) ELSE w

\* loop() without the flush of the timeouted income buffer
idleFlushNever(w) == w

\* store timeouted incoming serial communication
idleFlush(w) ==
  IF Len(w.sr.incomeBuffer) > 0
     /\ u32gt(u32sub(w.programMS, w.sr.lastMessageMS), SERIAL_MESSAGE_TIMEOUT)
  THEN addToSerialBuffer(w, "incomeBuffer", <<>>, 0)
  ELSE w

\* the drain loop testing the capacity before it stores the byte
RECURSIVE feedCheckFirst(_, _, _)
feedCheckFirst(w, bytes, buffLen) ==
  IF bytes = <<>> THEN w
  ELSE LET c == Head(bytes)
           w1 == IF c >= 32
                 THEN [w EXCEPT !.sr.incomeBuffer = SubSeq(@, 1, buffLen) \o <<c>>]
                 ELSE w
           len1 == IF c >= 32 THEN buffLen + 1 ELSE buffLen
       IN IF (buffLen = ROW_LENGTH) \/ ((c < 32) /\ len1 > 0)
          THEN feedCheckFirst(addToSerialBuffer(w1, "incomeBuffer", <<>>, 0), Tail(bytes), 0)
          ELSE feedCheckFirst(w1, Tail(bytes), len1)

\* the while ((i = Serial.read()) > -1) loop
RECURSIVE feed(_, _, _)
feed(w, bytes, buffLen) ==
  IF bytes = <<>> THEN w
  ELSE LET c == Head(bytes)
           w1 == IF c >= 32
                 THEN [w EXCEPT !.sr.incomeBuffer = SubSeq(@, 1, buffLen) \o <<c>>]
                 ELSE w
           len1 == IF c >= 32 THEN buffLen + 1 ELSE buffLen
       IN IF (len1 = ROW_LENGTH) \/ ((c < 32) /\ len1 > 0)
          THEN \* (the test on x has the line stored before the next byte is read)
               LET x == addToSerialBuffer(w1, "incomeBuffer", <<>>, 0)
               IN IF x.nAppends > w.nAppends THEN feed(x, Tail(bytes), 0) ELSE x
          ELSE feed(w1, Tail(bytes), len1)

serialDrain(w, bytes) ==
  IF Len(bytes) > 0
  THEN [feed(w, bytes, Len(w.sr.incomeBuffer)) EXCEPT !.sr.lastMessageMS = w.programMS]
  ELSE w

\* ------------------------------------------------------ loop(): user input
MenuEvents == {"SELECT", "NEXT", "PREV"}

\* the step of the menu doubling on every repeat, whatever the time between
menuStepUpdateNoWindow(w, menuAction) ==
  LET w1 == IF menuAction = w.lastMenuAction
            THEN IF w.dsp.menuStep < 8 /\ menuAction # "SELECT"
                 THEN [w EXCEPT !.dsp.menuStep = U8(@ * 2)]
                 ELSE [w EXCEPT !.dsp.menuStep = 1]
            ELSE [w EXCEPT !.lastMenuAction = menuAction, !.dsp.menuStep = 1]
  IN [w1 EXCEPT !.lastActionMS = w.programMS]

\* fast clicking: the step of the menu
menuStepUpdate(w, menuAction) ==
  LET w1 == IF menuAction = w.lastMenuAction
            THEN IF u32lt(u32sub(w.programMS, w.lastActionMS), FAST_CLICKING_MS)
                    /\ w.dsp.menuStep < 8 /\ menuAction # "SELECT"
                 THEN [w EXCEPT !.dsp.menuStep = U8(@ * 2)]
                 ELSE [w EXCEPT !.dsp.menuStep = 1]
            ELSE [w EXCEPT !.lastMenuAction = menuAction, !.dsp.menuStep = 1]
  IN [w1 EXCEPT !.lastActionMS = w.programMS]

\* index of setting->baudRate in baudRateList, baudRateListCount when absent
RECURSIVE baudIndex(_, _)
baudIndex(i, br) ==
  IF i < baudRateListCount /\ baudRateList[i + 1] # br THEN baudIndex(i + 1, br) ELSE i

onReceiving(w, menuAction) ==
  CASE menuAction = "SELECT" ->
         [w EXCEPT !.programState = "PROGRAM_LETTER", !.dsp.menuIndex = 0]
    [] menuAction = "NEXT" ->
         [w EXCEPT !.programState = "PROGRAM_BDR", !.dsp.menuIndex = baudIndex(0, w.baudRate)]
    [] menuAction = "PREV" ->
         [w EXCEPT !.programState = "PROGRAM_SCROLLING"]

\* the baud menu staying open after Select
onBdrSelectStays(w, menuAction, listValue, ok) ==
  CASE menuAction = "NEXT" ->
         [w EXCEPT !.dsp.menuIndex = (@ + w.dsp.menuStep) % baudRateListCount]
    [] menuAction = "PREV" ->
         [w EXCEPT !.dsp.menuIndex = (@ + baudRateListCount - w.dsp.menuStep) % baudRateListCount]
    [] menuAction = "SELECT" ->
         [changeBaudRate(w, listValue, ok) EXCEPT !.programState = "PROGRAM_BDR"]

\* listValue is baudRateList[dsp.menuIndex]
onBdr(w, menuAction, listValue, ok) ==
  CASE menuAction = "NEXT" ->
         [w EXCEPT !.dsp.menuIndex = (@ + w.dsp.menuStep) % baudRateListCount]
    [] menuAction = "PREV" ->
         [w EXCEPT !.dsp.menuIndex = (@ + baudRateListCount - w.dsp.menuStep) % baudRateListCount]
    [] menuAction = "SELECT" ->
         [changeBaudRate(w, listValue, ok) EXCEPT !.programState = "PROGRAM_RECEIVING"]

\* the keyboard with a CANCEL that keeps the text typed so far
onLetterCancelKeeps(w, menuAction) ==
  LET len == Len(w.sr.sendBuffer)
      ch == asciiList[w.dsp.menuIndex + 1]
  IN CASE menuAction = "NEXT" ->
            [w EXCEPT !.dsp.menuIndex = (@ + w.dsp.menuStep) % asciiListCount]
       [] menuAction = "PREV" ->
            [w EXCEPT !.dsp.menuIndex = (@ + asciiListCount - w.dsp.menuStep) % asciiListCount]
       [] menuAction = "SELECT" ->
            IF ch = 24 THEN [w EXCEPT !.programState = "PROGRAM_RECEIVING"]
            ELSE IF ch = 4
              THEN [writeToSerial(w, "sendBuffer", <<>>) EXCEPT !.programState = "PROGRAM_RECEIVING"]
            ELSE IF ch = 8
              THEN IF len > 0 THEN [w EXCEPT !.sr.sendBuffer = SubSeq(@, 1, len - 1)] ELSE w
            ELSE IF len < ROW_LENGTH + 1 - 2 - 1
              THEN [w EXCEPT !.sr.sendBuffer = @ \o <<ch>>]
              ELSE w

\* the keyboard taking one character more than the buffer is tested for
onLetterOneMore(w, menuAction) ==
  LET len == Len(w.sr.sendBuffer)
      ch == asciiList[w.dsp.menuIndex + 1]
  IN CASE menuAction = "NEXT" ->
            [w EXCEPT !.dsp.menuIndex = (@ + w.dsp.menuStep) % asciiListCount]
       [] menuAction = "PREV" ->
            [w EXCEPT !.dsp.menuIndex = (@ + asciiListCount - w.dsp.menuStep) % asciiListCount]
       [] menuAction = "SELECT" ->
            IF ch = 24 THEN [w EXCEPT !.sr.sendBuffer = <<>>, !.programState = "PROGRAM_RECEIVING"]
            ELSE IF ch = 4
              THEN [writeToSerial(w, "sendBuffer", <<>>) EXCEPT !.programState = "PROGRAM_RECEIVING"]
            ELSE IF ch = 8
              THEN IF len > 0 THEN [w EXCEPT !.sr.sendBuffer = SubSeq(@, 1, len - 1)] ELSE w
            ELSE IF len <= ROW_LENGTH + 1 - 2 - 1
              THEN [w EXCEPT !.sr.sendBuffer = @ \o <<ch>>]
              ELSE w

onLetter(w, menuAction) ==
  LET len == Len(w.sr.sendBuffer)
      ch == asciiList[w.dsp.menuIndex + 1]
  IN CASE menuAction = "NEXT" ->
            [w EXCEPT !.dsp.menuIndex = (@ + w.dsp.menuStep) % asciiListCount]
       [] menuAction = "PREV" ->
            [w EXCEPT !.dsp.menuIndex = (@ + asciiListCount - w.dsp.menuStep) % asciiListCount]
       [] menuAction = "SELECT" ->
            IF ch = 24 THEN [w EXCEPT !.sr.sendBuffer = <<>>, !.programState = "PROGRAM_RECEIVING"]
            ELSE IF ch = 4
              THEN [writeToSerial(w, "sendBuffer", <<>>) EXCEPT !.programState = "PROGRAM_RECEIVING"]
            ELSE IF ch = 8
              THEN IF len > 0 THEN [w EXCEPT !.sr.sendBuffer = SubSeq(@, 1, len - 1)] ELSE w
            ELSE IF len < ROW_LENGTH + 1 - 2 - 1
              THEN [w EXCEPT !.sr.sendBuffer = @ \o <<ch>>]
              ELSE w

\* scrolling with a Select that leaves readIndex where it is
onScrollingSelectKeeps(w, menuAction) ==
  LET readIndex == U8(w.sr.readIndex + SERIAL_BUFFER_ROWS)
      writeIndex == U8(w.sr.writeIndex + SERIAL_BUFFER_ROWS)
      tailIndex == (w.sr.writeIndex + SERIAL_BUFFER_ROWS - 1) % SERIAL_BUFFER_ROWS
  IN CASE menuAction = "SELECT" ->
            [w EXCEPT !.programState = "PROGRAM_RECEIVING"]
       [] menuAction = "NEXT" ->
            LET newReadIndex == U8(readIndex + 7)
            IN IF ((readIndex < writeIndex) /\ (newReadIndex >= writeIndex))
                  \/ ((readIndex > writeIndex) /\ (newReadIndex > writeIndex + SERIAL_BUFFER_ROWS))
               THEN [w EXCEPT !.sr.readIndex = tailIndex]
               ELSE [w EXCEPT !.sr.readIndex = newReadIndex % SERIAL_BUFFER_ROWS]
       [] menuAction = "PREV" ->
            LET newReadIndex == U8(readIndex - 7)
            IN IF (readIndex >= writeIndex + 7) /\ (newReadIndex <= writeIndex + 7)
               THEN [w EXCEPT !.sr.readIndex = (w.sr.writeIndex + 7) % SERIAL_BUFFER_ROWS]
               ELSE IF Len(cstr(w.sr, newReadIndex % SERIAL_BUFFER_ROWS)) > 0
                 THEN [w EXCEPT !.sr.readIndex = newReadIndex % SERIAL_BUFFER_ROWS]
                 ELSE w

onScrolling(w, menuAction) ==
  LET readIndex == U8(w.sr.readIndex + SERIAL_BUFFER_ROWS)
      writeIndex == U8(w.sr.writeIndex + SERIAL_BUFFER_ROWS)
      tailIndex == (w.sr.writeIndex + SERIAL_BUFFER_ROWS - 1) % SERIAL_BUFFER_ROWS
  IN CASE menuAction = "SELECT" ->
            [w EXCEPT !.sr.readIndex = tailIndex, !.programState = "PROGRAM_RECEIVING"]
       [] menuAction = "NEXT" ->
            LET newReadIndex == U8(readIndex + 7)
            IN IF ((readIndex < writeIndex) /\ (newReadIndex >= writeIndex))
                  \/ ((readIndex > writeIndex) /\ (newReadIndex > writeIndex + SERIAL_BUFFER_ROWS))
               THEN [w EXCEPT !.sr.readIndex = tailIndex]
               ELSE [w EXCEPT !.sr.readIndex = newReadIndex % SERIAL_BUFFER_ROWS]
       [] menuAction = "PREV" ->
            LET newReadIndex == U8(readIndex - 7)
            IN IF (readIndex >= writeIndex + 7) /\ (newReadIndex <= writeIndex + 7)
               THEN [w EXCEPT !.sr.readIndex = (w.sr.writeIndex + 7) % SERIAL_BUFFER_ROWS]
               ELSE IF Len(cstr(w.sr, newReadIndex % SERIAL_BUFFER_ROWS)) > 0
                 THEN [w EXCEPT !.sr.readIndex = newReadIndex % SERIAL_BUFFER_ROWS]
                 ELSE w

\* the state machine with the buttons of PROGRAM_RECEIVING in PROGRAM_ERROR
onMenuActionInError(w, menuAction, listValue, ok) ==
  LET w1 == menuStepUpdate(w, menuAction)
  IN CASE w1.programState = "PROGRAM_RECEIVING" -> onReceiving(w1, menuAction)
       [] w1.programState = "PROGRAM_BDR" -> onBdr(w1, menuAction, listValue, ok)
       [] w1.programState = "PROGRAM_LETTER" -> onLetter(w1, menuAction)
       [] w1.programState = "PROGRAM_SCROLLING" -> onScrolling(w1, menuAction)
       [] OTHER -> onReceiving(w1, menuAction)

\* the state machine of loop(); PROGRAM_ERROR has no branch
onMenuAction(w, menuAction, listValue, ok) ==
  LET w1 == menuStepUpdate(w, menuAction)
  IN CASE w1.programState = "PROGRAM_RECEIVING" -> onReceiving(w1, menuAction)
       [] w1.programState = "PROGRAM_BDR" -> onBdr(w1, menuAction, listValue, ok)
       [] w1.programState = "PROGRAM_LETTER" -> onLetter(w1, menuAction)
       [] w1.programState = "PROGRAM_SCROLLING" -> onScrolling(w1, menuAction)
       [] OTHER -> w1

\* the end of loop(): leaving the error state
errorDismiss(w) ==
  IF w.programState = "PROGRAM_ERROR" /\ u32gt(u32sub(w.programMS, w.errorEnterMS), SHOW_ERROR_MS)
  THEN [w EXCEPT !.programState = w.beforeErrorState, !.errStr = ""]
  ELSE w

\* ------------------------------------------------------------------- setup()
RECURSIVE digits(_)
digits(n) == IF n < 10 THEN <<48 + n>> ELSE digits(n \div 10) \o <<48 + (n % 10)>>
\* the state after draining the lines i..n-1, line k being the number k
\* followed by '\n' (the test of x only makes the model checker compute each
\* intermediate state before it goes on)
RECURSIVE numberedLines(_, _, _)
numberedLines(w, i, n) ==
  IF i >= n THEN w
  ELSE LET x == serialDrain(w, digits(i) \o <<10>>)
       IN IF x.nAppends > i THEN numberedLines(x, i + 1, n) ELSE x

afterSetup(c, br, wifi, mqtt) ==
  [sr |-> [buffer |-> [i \in Rows |-> <<>>], incomeBuffer |-> <<>>, sendBuffer |-> <<>>,
           writeIndex |-> 0, readIndex |-> SERIAL_BUFFER_ROWS - 1, lastMessageMS |-> c],
   dsp |-> [menuIndex |-> 0, menuStep |-> 1],
   baudRate |-> br, flash |-> br, EEPROM |-> TEeprom(br), wifiON |-> wifi, useMqtt |-> mqtt, clients |-> {},
   programMS |-> c, errorEnterMS |-> u32(0), lastActionMS |-> u32(0), lastMenuAction |-> "NONE",
   strVar |-> NoMsg, errStr |-> "",
   programState |-> "PROGRAM_RECEIVING", beforeErrorState |-> "PROGRAM_RECEIVING",
   clock |-> c, dt |-> 0, out |-> <<>>, tx |-> <<>>, eepromLog |-> <<>>,
   nAppends |-> 0, lastLine |-> <<>>]

Event(step, input) == [step |-> step, input |-> input]

\* the clients connect one after the other
RECURSIVE connectAll(_, _)
connectAll(w, nums) ==
  IF nums = {} THEN w
  ELSE LET num == CHOOSE n \in nums : TRUE
       IN connectAll(wsConnected([w EXCEPT !.clients = @ \cup {num}], num), nums \ {num})

\* setup(), followed by a first loop() iteration in which the clients of the
\* device connect and its lines are received in one burst
Setup(devices, maxInputs) ==
  \E c \in StartClocks, br \in InitBauds, dev \in devices :
    LET w0 == afterSetup(c, br, dev[1], dev[2])
        w1 == [numberedLines(connectAll(w0, dev[4]), 0, dev[3]) EXCEPT !.out = <<>>]
    IN /\ sr = w1.sr /\ dsp = w1.dsp /\ baudRate = w1.baudRate /\ flash = w1.flash
       /\ EEPROM = w1.EEPROM
       /\ wifiON = w1.wifiON /\ useMqtt = w1.useMqtt /\ clients = w1.clients
       /\ programMS = w1.programMS /\ errorEnterMS = w1.errorEnterMS
       /\ lastActionMS = w1.lastActionMS /\ lastMenuAction = w1.lastMenuAction
       /\ strVar = w1.strVar /\ errStr = w1.errStr
       /\ programState = w1.programState /\ beforeErrorState = w1.beforeErrorState
       /\ clock = w1.clock /\ out = w1.out /\ tx = w1.tx /\ eepromLog = w1.eepromLog
       /\ nAppends = w1.nAppends /\ lastLine = w1.lastLine
       /\ pc = "start"
       /\ ev = Event("setup", dev[3])
       /\ budget = maxInputs
       /\ loops = 0

Init == Setup(Devices, MaxInputs)

\* ------------------------------------------------------------------- actions
\* programMS = millis() at the top of loop()
LoopStart(d) ==
  /\ pc = "start"
  /\ LET w == millis(Tick(State, d))
     IN Commit([w EXCEPT !.programMS = w.clock], IF wifiON = 1 THEN "ws" ELSE "flush", 0,
               Event("LoopStart", d))

WsConnect(num) ==
  /\ pc = "ws" /\ budget > 0
  /\ num \notin clients
  /\ Commit(wsConnected([State EXCEPT !.clients = @ \cup {num}], num), "ws", 1,
            Event("WsConnect", num))

WsDisconnect(num) ==
  /\ pc = "ws" /\ budget > 0
  /\ num \in clients
  /\ Commit([State EXCEPT !.clients = @ \ {num}], "ws", 1, Event("WsDisconnect", num))

WsText(num, req, d, ok) ==
  /\ pc = "ws" /\ budget > 0
  /\ num \in clients
  /\ Commit(wsText(Tick(State, d), num, req, ok), "ws", 1, Event("WsText", req))

WsDone ==
  /\ pc = "ws"
  /\ Commit(State, IF useMqtt THEN "mqtt" ELSE "flush", 0, Event("WsDone", 0))

\* if (!mqtt_client.connected()) switchToError(...); mqttConnect();
MqttDisconnected(d) ==
  /\ pc = "mqtt" /\ budget > 0
  /\ Commit(switchToError(Tick(State, d), "Error MQTT disconnected"), "flush", 1,
            Event("MqttDisconnected", 0))

\* mqtt_client.loop() delivers a message
MqttMessage(req, d, ok) ==
  /\ pc = "mqtt" /\ budget > 0
  /\ Commit(mqttCallback(Tick(State, d), req, ok), "flush", 1, Event("MqttMessage", req))

MqttDone ==
  /\ pc = "mqtt"
  /\ Commit(State, "flush", 0, Event("MqttDone", 0))

IdleFlush ==
  /\ pc = "flush"
  /\ Commit(idleFlush(State), "serial", 0, Event("IdleFlush", 0))

SerialDrain(bytes) ==
  /\ pc = "serial" /\ budget > 0
  /\ Commit(serialDrain(State, bytes), "button", 1, Event("SerialDrain", bytes))

SerialNone ==
  /\ pc = "serial"
  /\ Commit(State, "button", 0, Event("SerialNone", 0))

Button(menuAction, d, ok) ==
  /\ pc = "button" /\ budget > 0
  /\ \E listValue \in (IF dsp.menuIndex < baudRateListCount
                       THEN {baudRateList[dsp.menuIndex + 1]} ELSE OutOfBoundsBaud) :
       Commit(onMenuAction(Tick(State, d), menuAction, listValue, ok), "dismiss", 1,
              Event("Button", menuAction))

ButtonNone ==
  /\ pc = "button"
  /\ Commit(State, "dismiss", 0, Event("ButtonNone", 0))

ErrorDismiss ==
  /\ pc = "dismiss"
  /\ Commit(errorDismiss(State), "start", 0, Event("ErrorDismiss", 0))

\* the external events, each drawn from the domains of the record in
Handlers(in) ==
  \/ \E num \in 0..(MaxClients - 1) : WsConnect(num)
  \/ \E num \in 0..(MaxClients - 1) : WsDisconnect(num)
  \/ \E num \in 0..(MaxClients - 1), req \in in.ws, d \in in.deltas, ok \in in.ok :
       WsText(num, req, d, ok)
  \/ WsDone
  \/ \E d \in in.deltas : MqttDisconnected(d)
  \/ \E req \in in.mqtt, d \in in.deltas, ok \in in.ok : MqttMessage(req, d, ok)
  \/ MqttDone
  \/ IdleFlush
  \/ \E bytes \in in.bursts : SerialDrain(bytes)
  \/ SerialNone
  \/ \E menuAction \in in.menu, d \in in.deltas, ok \in in.ok : Button(menuAction, d, ok)
  \/ ButtonNone
  \/ ErrorDismiss

Inputs ==
  [ws |-> WsRequests, mqtt |-> MqttRequests, bursts |-> SerialBursts, menu |-> MenuEvents,
   deltas |-> MidDeltas, ok |-> BOOLEAN]

\* a loop() iteration of Spec starts while fewer than MaxLoops have run
BoundedLoopStart(d) == loops < MaxLoops /\ LoopStart(d)

Next ==
  \/ \E d \in Deltas : BoundedLoopStart(d)
  \/ Handlers(Inputs)

Spec == Init /\ [][Next]_vars

\* The specification with fairness: loop() is called again and again.  Its
\* first iterations may follow each other within SERIAL_MESSAGE_TIMEOUT ms;
\* then millis() advances by LiveDeltas between two iterations (and wraps).
\* At most MaxLiveInputs external events arrive.
InitLive == Setup(LiveDevices, MaxLiveInputs)

LiveInputs ==
  [ws |-> {r \in WsRequests : r.kind = "malformed" \/ (r.kind = "inp" /\ Len(r.text) = 2)},
   mqtt |-> {r \in MqttRequests : r.kind \in {"unknown", "bdr"}},
   bursts |-> {b \in SerialBursts : Len(b) \in {1, 4}},
   menu |-> {"NEXT", "SELECT"},
   deltas |-> {0}, ok |-> BOOLEAN]

NextLive ==
  \/ \E d \in {SERIAL_MESSAGE_TIMEOUT} : BoundedLoopStart(d)
  \/ \E d \in LiveDeltas : LoopStart(d)
  \/ Handlers(LiveInputs)

\* loop() never stops: the position in it keeps moving
ProgramCounters == {"start", "ws", "mqtt", "flush", "serial", "button", "dismiss"}
SpecLive == InitLive /\ [][NextLive]_vars /\ WF_pc(pc' \in ProgramCounters)

\* The device without network, driven by its buttons and its serial line: up
\* to MaxKeyInputs events.  Only the loop() iterations in which an event
\* arrives are steps; the iterations between them are part of the time that
\* passes before the next one.
KeyDevices == {<<0, FALSE, 0, {}>>, <<0, FALSE, 39, {}>>}
KeyDeltas == {250, 350}
\* n received lines "A", "B", ...
Lines(n) == [i \in 1..(2 * n) |-> IF i % 2 = 1 THEN 65 + (i \div 2) ELSE 10]
KeyBursts == {Lines(6), Lines(SERIAL_BUFFER_ROWS - 7)}

InitKeys == Setup(KeyDevices, MaxKeyInputs)

KeyLoopStart(d) == budget > 0 /\ LoopStart(d)
KeyButtonNone == ev.step = "SerialDrain" /\ ButtonNone

NextKeys ==
  \/ \E d \in KeyDeltas : KeyLoopStart(d)
  \/ IdleFlush
  \/ \E bytes \in KeyBursts : SerialDrain(bytes)
  \/ SerialNone
  \/ \E menuAction \in MenuEvents : Button(menuAction, 0, TRUE)
  \/ KeyButtonNone
  \/ ErrorDismiss

SpecKeys == InitKeys /\ [][NextKeys]_vars

\* ------------------------------------------------------ a typed text
\* The keyboard was opened with Select and 'A' was selected n times, within
\* the first loop() iteration after setup().
MaxTypeInputs == 5
TypedLengths == {ROW_LENGTH - 3}
RECURSIVE typed(_, _)
typed(w, n) ==
  IF n = 0 THEN w
  ELSE LET x == onMenuAction(w, "SELECT", baudRateList[1], TRUE)
       IN IF x.programState = "PROGRAM_LETTER" THEN typed(x, n - 1) ELSE x

InitType ==
  \E c \in StartClocks, br \in InitBauds, n \in TypedLengths :
    LET w == typed(afterSetup(c, br, 0, FALSE), n + 1)
    IN /\ sr = w.sr /\ dsp = w.dsp /\ baudRate = w.baudRate /\ flash = w.flash
       /\ EEPROM = w.EEPROM
       /\ wifiON = w.wifiON /\ useMqtt = w.useMqtt /\ clients = w.clients
       /\ programMS = w.programMS /\ errorEnterMS = w.errorEnterMS
       /\ lastActionMS = w.lastActionMS /\ lastMenuAction = w.lastMenuAction
       /\ strVar = w.strVar /\ errStr = w.errStr
       /\ programState = w.programState /\ beforeErrorState = w.beforeErrorState
       /\ clock = w.clock /\ out = <<>> /\ tx = <<>> /\ eepromLog = <<>>
       /\ nAppends = w.nAppends /\ lastLine = w.lastLine
       /\ pc = "start"
       /\ ev = Event("setup", n)
       /\ budget = MaxTypeInputs
       /\ loops = 0
SpecType == InitType /\ [][NextKeys]_vars

\* ------------------------------------- a typed text and the subscribers
\* 'A' was typed on the keyboard of a device with WiFi in the first loop()
\* iteration; the events of Spec follow.
ComposeDevices == {<<1, FALSE, 0, {0}>>, <<1, TRUE, 0, {}>>}
ComposedLengths == {1}
InitCompose ==
  \E c \in StartClocks, br \in InitBauds, dev \in ComposeDevices, n \in ComposedLengths :
    LET w == typed(connectAll(afterSetup(c, br, dev[1], dev[2]), dev[4]), n + 1)
    IN /\ sr = w.sr /\ dsp = w.dsp /\ baudRate = w.baudRate /\ flash = w.flash
       /\ EEPROM = w.EEPROM
       /\ wifiON = w.wifiON /\ useMqtt = w.useMqtt /\ clients = w.clients
       /\ programMS = w.programMS /\ errorEnterMS = w.errorEnterMS
       /\ lastActionMS = w.lastActionMS /\ lastMenuAction = w.lastMenuAction
       /\ strVar = w.strVar /\ errStr = w.errStr
       /\ programState = w.programState /\ beforeErrorState = w.beforeErrorState
       /\ clock = w.clock /\ out = <<>> /\ tx = <<>> /\ eepromLog = <<>>
       /\ nAppends = w.nAppends /\ lastLine = w.lastLine
       /\ pc = "start"
       /\ ev = Event("setup", n)
       /\ budget = MaxInputs
       /\ loops = 0
SpecCompose == InitCompose /\ [][Next]_vars

\* ------------------------------------------------- setup(): the settings
\* The device is switched on with a record in the flash memory, loads it in
\* setup(), changes the baud rate, and is switched off and on again; while it
\* is off a bit of the record can flip.
MaxBoots == 2
BootBauds == {9600, 57600}
BootRecords == {<<>>} \cup {TEeprom(b) : b \in InitBauds}
RecordBits == 1..64
\* the record d with bit k inverted
flipBit(d, k) ==
  LET n == ((k - 1) \div 8) + 1
      m == 2^((k - 1) % 8)
  IN [d EXCEPT ![n] = IF (@ \div m) % 2 = 1 THEN @ - m ELSE @ + m]

InitBoot ==
  \E c \in StartClocks, rec \in BootRecords :
    LET w == afterSetup(c, 0, 0, FALSE)
    IN /\ sr = w.sr /\ dsp = w.dsp /\ baudRate = 0 /\ flash = 0
       /\ EEPROM = rec
       /\ wifiON = w.wifiON /\ useMqtt = w.useMqtt /\ clients = w.clients
       /\ programMS = w.programMS /\ errorEnterMS = w.errorEnterMS
       /\ lastActionMS = w.lastActionMS /\ lastMenuAction = w.lastMenuAction
       /\ strVar = w.strVar /\ errStr = w.errStr
       /\ programState = w.programState /\ beforeErrorState = w.beforeErrorState
       /\ clock = w.clock /\ out = w.out /\ tx = w.tx /\ eepromLog = w.eepromLog
       /\ nAppends = w.nAppends /\ lastLine = w.lastLine
       /\ pc = "setup"
       /\ ev = Event("power", 0)
       /\ budget = MaxBoots
       /\ loops = 0

\* setup(): EEPROM.get, the test of the checksum and resetEEPROM
LoadSettings(ok) ==
  /\ pc = "setup"
  /\ Commit(loadSettings(State, ok), "running", 0, Event("LoadSettings", EEPROM))

\* a baud rate is chosen in the menu while the program runs
SaveSetting(br, ok) ==
  /\ pc = "running" /\ budget > 0
  /\ Commit(changeBaudRate(State, br, ok), "running", 1, Event("SaveSetting", br))

\* power off and on: the RAM is cleared, the flash memory is kept but for
\* the bit k when k is not 0
PowerCycle(k) ==
  /\ pc = "running" /\ budget > 0
  /\ k # 0 => EEPROM # <<>>
  /\ Commit([State EXCEPT !.baudRate = 0,
                          !.EEPROM = IF k = 0 THEN @ ELSE flipBit(@, k)],
            "setup", 1, Event("PowerCycle", k))

NextBoot ==
  \/ \E ok \in BOOLEAN : LoadSettings(ok)
  \/ \E br \in BootBauds, ok \in BOOLEAN : SaveSetting(br, ok)
  \/ \E k \in {0} \cup RecordBits : PowerCycle(k)
SpecBoot == InitBoot /\ [][NextBoot]_vars

\* ==================================================================== claims
\* the slot written by the last append
tailSlot == (sr.writeIndex + SERIAL_BUFFER_ROWS - 1) % SERIAL_BUFFER_ROWS
NonErrorStates == TprogramStates \ {"PROGRAM_ERROR"}

\* C1: after N appends to a reset ring, writeIndex = N mod 40, both indices
\* are within 0..39 and the C string read at slot (writeIndex-1) mod 40 is the
\* line appended last.
C1_RoundRobin ==
  /\ sr.writeIndex = nAppends % SERIAL_BUFFER_ROWS
  /\ sr.writeIndex \in Rows
  /\ sr.readIndex \in Rows
  /\ nAppends > 0 => cstr(sr, tailSlot) = lastLine

\* C2: every line stored in a slot of the ring has at most ROW_LENGTH (32)
\* characters, whatever was received and whatever the keyboard, the web
\* clients and the broker asked to send.
C2_LineFitsRow == \A i \in Rows : Len(cstr(sr, i)) <= ROW_LENGTH

\* C3: a step that appends k > 0 lines advances writeIndex by k modulo 40;
\* when the mode is not PROGRAM_SCROLLING readIndex becomes the slot written
\* last, and when the mode is PROGRAM_SCROLLING readIndex is unchanged.
C3_AutoTail ==
  [][nAppends' > nAppends =>
       /\ sr'.writeIndex = (sr.writeIndex + (nAppends' - nAppends)) % SERIAL_BUFFER_ROWS
       /\ IF programState = "PROGRAM_SCROLLING"
          THEN sr'.readIndex = sr.readIndex
          ELSE sr'.readIndex = (sr'.writeIndex + SERIAL_BUFFER_ROWS - 1) % SERIAL_BUFFER_ROWS]_vars

\* a line was received while scrolling and the view stayed where it was
C3_Witness ==
  /\ ev.step = "SerialDrain" /\ ev.input = <<100, 10>>
  /\ programState = "PROGRAM_SCROLLING"
  /\ lastLine = <<100>>
  /\ sr.readIndex # tailSlot

\* C4: ROW_LENGTH printable bytes received in one burst into an empty income
\* buffer append exactly one line, made of these 32 bytes, and leave the
\* income buffer empty.
C4_FullRow ==
  [][(/\ ev'.step = "SerialDrain"
      /\ Len(ev'.input) = ROW_LENGTH
      /\ \A i \in 1..ROW_LENGTH : ev'.input[i] >= 32
      /\ sr.incomeBuffer = <<>>)
     => /\ nAppends' = nAppends + 1
        /\ lastLine' = ev'.input
        /\ sr'.buffer[sr.writeIndex] = ev'.input
        /\ sr'.incomeBuffer = <<>>]_vars

C4_Witness ==
  /\ ev.step = "SerialDrain" /\ ev.input = Rep(103, ROW_LENGTH)
  /\ nAppends = 1
  /\ sr.buffer[0] = Rep(103, ROW_LENGTH)
  /\ sr.incomeBuffer = <<>>

SetBaudCall(v) ==
  \/ /\ ev'.step \in {"WsText", "MqttMessage"}
     /\ ev'.input.kind = "bdr"
     /\ ev'.input.br = v
  \/ /\ ev'.step = "Button"
     /\ ev'.input = "SELECT"
     /\ programState = "PROGRAM_BDR"
     /\ dsp.menuIndex < baudRateListCount
     /\ baudRateList[dsp.menuIndex + 1] = v
BaudValues == BaudInputs \cup {baudRateList[i] : i \in 1..baudRateListCount}

C7_NewBaudResets ==
  [][\A v \in BaudValues : (SetBaudCall(v) /\ v # baudRate) =>
       /\ baudRate' = v
       /\ Len(eepromLog') = 1
       /\ eepromLog'[1].baudRate = v
       /\ eepromLog'[1].ok => flash' = v
       /\ \A i \in Rows : sr'.buffer[i] = <<>>
       /\ sr'.incomeBuffer = <<>>
       /\ sr'.writeIndex = 0
       /\ sr'.readIndex = SERIAL_BUFFER_ROWS - 1
       /\ nAppends' = 0]_vars

\* a web client of a device holding 39 or 44 lines asked for another rate and
\* the EEPROM commit failed: the rate is changed and the ring is empty
C7_Witness ==
  /\ ev.step = "WsText" /\ ev.input.kind = "bdr" /\ ev.input.br = baudRate
  /\ eepromLog = <<[baudRate |-> baudRate, ok |-> FALSE]>>
  /\ flash # baudRate
  /\ \A i \in Rows : sr.buffer[i] = <<>>
  /\ sr.writeIndex = 0 /\ sr.readIndex = SERIAL_BUFFER_ROWS - 1

\* C8: the active baud rate is always one of baudRateList.
C8_BaudInList == \E i \in 1..baudRateListCount : baudRate = baudRateList[i]

\* the step raises an error: a malformed or unknown request of a web client,
\* wrong parameters or an unknown command of the broker, or a failed EEPROM
\* commit in changeBaudRate
ErrorRaised ==
  \/ ev'.step = "WsText" /\ ev'.input.kind \in {"malformed", "unknown"}
  \/ ev'.step = "MqttMessage" /\ ev'.input.kind \in {"wrong", "unknown"}
  \/ ev'.step \in {"WsText", "MqttMessage", "Button"}
     /\ eepromLog' # <<>> /\ ~eepromLog'[1].ok

\* C9: a step that raises an error ends in PROGRAM_ERROR with
\* beforeErrorState the mode the step started in.
C9_ErrorEntersOverlay ==
  [][ErrorRaised =>
       /\ programState' = "PROGRAM_ERROR"
       /\ beforeErrorState' = programState]_vars

\* C10: whenever the mode is PROGRAM_ERROR, it eventually is a non-error mode
\* again, also when further errors are raised while the overlay is showing.
C10_OverlayDismissed ==
  (programState = "PROGRAM_ERROR") ~> (programState \in NonErrorStates)

\* C11: a step that leaves PROGRAM_ERROR happens only when at least
\* SHOW_ERROR_MS have passed on the clock since errorEnterMS, the time at
\* which the error was raised.
C11_OverlayStays ==
  [][(programState = "PROGRAM_ERROR" /\ programState' # "PROGRAM_ERROR")
       => u32gt(u32sub(clock', errorEnterMS), SHOW_ERROR_MS - 1)]_vars

\* C12: a Next in PROGRAM_BDR that follows a Next applied with step 1 is
\* applied with step 2 when programMS - lastActionMS < 300 and with step 1
\* when it is > 300; a button other than the previous one, and every Select,
\* is applied with step 1.
C12_FastClick ==
  [][ev'.step = "Button" =>
       /\ (/\ ev'.input = "NEXT" /\ lastMenuAction = "NEXT"
           /\ programState = "PROGRAM_BDR" /\ dsp.menuStep = 1)
          => LET elapsed == u32sub(programMS, lastActionMS)
                 step == IF u32lt(elapsed, FAST_CLICKING_MS) THEN 2 ELSE 1
             IN (u32lt(elapsed, FAST_CLICKING_MS) \/ u32gt(elapsed, FAST_CLICKING_MS))
                => /\ dsp'.menuStep = step
                   /\ dsp'.menuIndex = (dsp.menuIndex + step) % baudRateListCount
       /\ (ev'.input # lastMenuAction \/ ev'.input = "SELECT") => dsp'.menuStep = 1]_vars

\* in the baud menu entered at 9600 (index 3): a slow Next (index 4), then a
\* fast Next applied with step 2 (index 6)
C12_Witness ==
  /\ ev.step = "Button" /\ ev.input = "NEXT"
  /\ programState = "PROGRAM_BDR"
  /\ baudRate = 9600
  /\ dsp.menuStep = 2
  /\ dsp.menuIndex = 6

\* the step reads the button b less than FAST_CLICKING_MS after the previous
\* button event
FastRepeat(b) ==
  /\ ev'.step = "Button" /\ ev'.input = b
  /\ lastMenuAction = b
  /\ u32lt(u32sub(programMS, lastActionMS), FAST_CLICKING_MS)

\* C13: the step is always 1, 2, 4 or 8, and a fast repeat of Prev or Next
\* is applied with twice the step of the event before it, at most 8.
C13_StepDoublesToCap ==
  /\ [](dsp.menuStep \in {1, 2, 4, 8})
  /\ [][\A b \in {"NEXT", "PREV"} : FastRepeat(b) =>
          dsp'.menuStep = IF 2 * dsp.menuStep < 8 THEN 2 * dsp.menuStep ELSE 8]_vars

\* C14: from the start (9600, PROGRAM_RECEIVING, no event yet): the first Next
\* enters PROGRAM_BDR at index 3; the Next after it moves to index 4 whatever
\* the time between them; a fast Next after that moves to index 6; Select on
\* index 6 sets 57600, empties the ring and returns to PROGRAM_RECEIVING.
C14_BaudMenuScenario ==
  [][(ev'.step = "Button" /\ baudRate = 9600) =>
       /\ (budget = MaxKeyInputs /\ ev'.input = "NEXT")
          => (programState' = "PROGRAM_BDR" /\ dsp'.menuIndex = 3)
       /\ (budget = MaxKeyInputs - 1 /\ programState = "PROGRAM_BDR" /\ ev'.input = "NEXT")
          => dsp'.menuIndex = 4
       /\ (budget = MaxKeyInputs - 2 /\ programState = "PROGRAM_BDR" /\ dsp.menuIndex = 4
           /\ FastRepeat("NEXT"))
          => dsp'.menuIndex = 6
       /\ (programState = "PROGRAM_BDR" /\ dsp.menuIndex = 6 /\ ev'.input = "SELECT")
          => /\ baudRate' = 57600
             /\ \A i \in Rows : sr'.buffer[i] = <<>>
             /\ sr'.writeIndex = 0
             /\ programState' = "PROGRAM_RECEIVING"]_vars

\* C15: Select in PROGRAM_LETTER: on DELETE it removes the last character of
\* sr.sendBuffer (nothing when empty) and sends nothing; on CANCEL it empties
\* sr.sendBuffer, sends nothing and goes to PROGRAM_RECEIVING; on SEND it
\* writes sr.sendBuffer and "\r\n" to the serial line (nothing when empty),
\* empties it and goes to PROGRAM_RECEIVING.
C15_Keyboard ==
  [][(ev'.step = "Button" /\ ev'.input = "SELECT" /\ programState = "PROGRAM_LETTER") =>
       LET ch == asciiList[dsp.menuIndex + 1]
           len == Len(sr.sendBuffer)
       IN /\ ch = 8 => /\ sr'.sendBuffer = SubSeq(sr.sendBuffer, 1, IF len > 0 THEN len - 1 ELSE 0)
                       /\ tx' = <<>> /\ nAppends' = nAppends
                       /\ programState' = "PROGRAM_LETTER"
          /\ ch = 24 => /\ sr'.sendBuffer = <<>>
                        /\ tx' = <<>> /\ nAppends' = nAppends
                        /\ programState' = "PROGRAM_RECEIVING"
          /\ ch = 4 => /\ tx' = IF len > 0 THEN sr.sendBuffer \o <<13, 10>> ELSE <<>>
                       /\ nAppends' = IF len > 0 THEN nAppends + 1 ELSE nAppends
                       /\ sr'.sendBuffer = <<>>
                       /\ programState' = "PROGRAM_RECEIVING"]_vars

\* 'A' was selected and SEND transmitted it
C15_Witness ==
  /\ ev.step = "Button" /\ ev.input = "SELECT"
  /\ tx = <<65, 13, 10>>
  /\ lastLine = <<62, 32, 65>>
  /\ sr.sendBuffer = <<>>
  /\ programState = "PROGRAM_RECEIVING"

\* the step calls writeToSerial: an "inp" request of a web client or of the
\* broker, or Select on SEND in PROGRAM_LETTER
TransmitCall ==
  \/ ev'.step \in {"WsText", "MqttMessage"} /\ ev'.input.kind = "inp"
  \/ /\ ev'.step = "Button" /\ ev'.input = "SELECT"
     /\ programState = "PROGRAM_LETTER"
     /\ asciiList[dsp.menuIndex + 1] = 4
\* the text it is called with
TransmitText ==
  IF ev'.step = "WsText" THEN strncpy(ev'.input.text, ROW_LENGTH)
  ELSE IF ev'.step = "MqttMessage"
    THEN strncpy(ev'.input.text, MQTT_MAX_PAYLOAD_LENGTH - 1)
    ELSE sr.sendBuffer

\* C16: writeToSerial with an empty text writes nothing to the serial line
\* and appends nothing; with a text it writes the text and "\r\n", appends
\* exactly one line "> " + text, notifies it with outM "W" to the connected
\* clients and to the broker, and leaves sr.sendBuffer empty when that was
\* the text.
C16_Transmit ==
  [][TransmitCall =>
       IF TransmitText = <<>>
       THEN /\ tx' = <<>>
            /\ nAppends' = nAppends
            /\ sr'.buffer = sr.buffer /\ sr'.writeIndex = sr.writeIndex
       ELSE /\ tx' = TransmitText \o <<13, 10>>
            /\ nAppends' = nAppends + 1
            /\ lastLine' = <<62, 32>> \o TransmitText
            /\ cstr(sr', sr.writeIndex) = <<62, 32>> \o TransmitText
            /\ (wifiON = 1 /\ clients # {}) =>
                 \E i \in 1..Len(out') :
                   out'[i] = [ch |-> "ws_broadcast", num |-> -1,
                              payload |-> LogMsg("inc", <<62, 32>> \o TransmitText, "W")]
            /\ (wifiON = 1 /\ useMqtt) =>
                 \E i \in 1..Len(out') :
                   out'[i] = [ch |-> "mqtt_rspn", num |-> -1,
                              payload |-> LogMsg("inc", <<62, 32>> \o TransmitText, "W")]
            /\ ev'.step = "Button" => sr'.sendBuffer = <<>>]_vars

\* how many slots the slot i is behind the tail slot (0 for the tail slot,
\* SERIAL_BUFFER_ROWS - 1 for the slot at writeIndex)
behindTail(i) == (tailSlot + SERIAL_BUFFER_ROWS - i) % SERIAL_BUFFER_ROWS
ScrollEvent(b) ==
  ev'.step = "Button" /\ ev'.input = b /\ programState = "PROGRAM_SCROLLING"

\* C17: Next in PROGRAM_SCROLLING leaves readIndex on a slot between its
\* previous position and the tail slot, never on the slot at writeIndex.
C17_NextClamped ==
  [][ScrollEvent("NEXT") =>
       /\ sr'.writeIndex = sr.writeIndex
       /\ behindTail(sr'.readIndex) <= behindTail(sr.readIndex)
       /\ sr'.readIndex # sr.writeIndex]_vars

\* C18: Prev in PROGRAM_SCROLLING moves readIndex only to a non-empty slot
\* and, when the ring is full, never to a slot newer than the one it left.
C18_PrevClamped ==
  [][ScrollEvent("PREV") =>
       /\ sr'.writeIndex = sr.writeIndex
       /\ sr'.readIndex # sr.readIndex => Len(cstr(sr', sr'.readIndex)) > 0
       /\ nAppends >= SERIAL_BUFFER_ROWS
          => behindTail(sr'.readIndex) >= behindTail(sr.readIndex)]_vars

\* the slots of the ring from the oldest (at writeIndex) to the newest
oldestFirst == [k \in 1..SERIAL_BUFFER_ROWS |-> (sr.writeIndex + k - 1) % SERIAL_BUFFER_ROWS]
hasLine(i) == Len(sr.buffer[i]) > 0
linesOldestFirst == SelectSeq(oldestFirst, hasLine)
\* the messages with channel ch of a sequence of sent messages
onChannel(sent, ch) == SelectSeq(sent, LAMBDA m : m.ch = ch)
payloads(sent) == [k \in 1..Len(sent) |-> sent[k].payload]

\* C19: a client that connects is sent every non-empty slot of the ring once,
\* oldest first, the first with outT "full" and the others with "inc", then
\* the baud notification; the replay reads no slot outside the ring.
C19_ReplayInFull ==
  [][ev'.step = "WsConnect" =>
       /\ out' = [k \in 1..(Len(linesOldestFirst) + 1) |->
                    [ch |-> "ws_send", num |-> ev'.input,
                     payload |-> IF k <= Len(linesOldestFirst)
                                 THEN LogMsg(IF k = 1 THEN "full" ELSE "inc",
                                             cstr(sr, linesOldestFirst[k]), "R")
                                 ELSE BdrMsg(baudRate)]]
       /\ sr.writeIndex + 1 \in Rows]_vars

\* the steps that append one line, and the outM of that line
OneAppend ==
  /\ nAppends' = nAppends + 1
  /\ \A v \in BaudValues : ~SetBaudCall(v)
  /\ ev'.step # "WsConnect"
AppendMode == IF TransmitCall THEN "W" ELSE "R"

\* C20: an append is notified once, with the appended line and its outM, and
\* a changeBaudRate call once with its rate, to the connected clients and to
\* the broker alike, whether or not a client is connected.
C20_Notified ==
  [][/\ (OneAppend /\ wifiON = 1) =>
          LET m == LogMsg("inc", cstr(sr', sr.writeIndex), AppendMode)
          IN /\ clients # {} => payloads(onChannel(out', "ws_broadcast")) = <<m>>
             /\ useMqtt => payloads(onChannel(out', "mqtt_rspn")) = <<m>>
     /\ \A v \in BaudValues : (SetBaudCall(v) /\ wifiON = 1) =>
          LET sentBaud(ch) == SelectSeq(payloads(onChannel(out', ch)),
                                        LAMBDA m : m.rsT = "bdr")
          IN /\ clients # {} => sentBaud("ws_broadcast") = <<BdrMsg(v)>>
             /\ useMqtt => sentBaud("mqtt_rspn") = <<BdrMsg(v)>>]_vars

SavedBauds == BootBauds \cup InitBauds \cup {DEFAULT_BAUD_RATE}
\* the records saveEEPROM writes for these rates
Saved == [b \in SavedBauds |-> TEeprom(b)]

\* C21: setup() takes the baud rate of a record that saveEEPROM wrote, and
\* saves nothing; a record that differs from such a record in one bit, of the
\* crc32 or of the baud rate, makes it set the baud rate to DEFAULT_BAUD_RATE
\* and save it.
C21_Checksum ==
  [][ev'.step = "LoadSettings" =>
       \A b \in SavedBauds :
         /\ EEPROM = Saved[b] =>
              /\ baudRate' = b
              /\ eepromLog' = <<>>
              /\ EEPROM' = EEPROM
         /\ \A k \in RecordBits : EEPROM = flipBit(Saved[b], k) =>
              /\ baudRate' = DEFAULT_BAUD_RATE
              /\ Len(eepromLog') = 1
              /\ eepromLog'[1].baudRate = DEFAULT_BAUD_RATE
              /\ eepromLog'[1].ok => EEPROM' = Saved[DEFAULT_BAUD_RATE]]_vars

\* 57600 was saved, bit 13 of the baud rate flipped while the device was off,
\* and setup() has put the default back
C21_Witness ==
  /\ ev.step = "LoadSettings"
  /\ ev.input = flipBit(Saved[57600], 45)
  /\ baudRate = DEFAULT_BAUD_RATE
  /\ EEPROM = Saved[DEFAULT_BAUD_RATE]

\* the maximal runs of bytes >= 32 of a byte sequence: runs holds those
\* ended by a byte < 32, open the one the sequence ends with
RECURSIVE splitRuns(_, _, _)
splitRuns(bytes, cur, acc) ==
  IF bytes = <<>> THEN [runs |-> acc, open |-> cur]
  ELSE IF Head(bytes) >= 32 THEN splitRuns(Tail(bytes), Append(cur, Head(bytes)), acc)
  ELSE splitRuns(Tail(bytes), <<>>, IF cur = <<>> THEN acc ELSE Append(acc, cur))
\* a run cut into pieces of ROW_LENGTH bytes, and its pieces of full length
chunks(run) ==
  [k \in 1..((Len(run) + ROW_LENGTH - 1) \div ROW_LENGTH) |->
     SubSeq(run, ROW_LENGTH * (k - 1) + 1,
            IF ROW_LENGTH * k < Len(run) THEN ROW_LENGTH * k ELSE Len(run))]
fullChunks(run) == SubSeq(chunks(run), 1, Len(run) \div ROW_LENGTH)
RECURSIVE flatten(_)
flatten(ss) == IF ss = <<>> THEN <<>> ELSE Head(ss) \o flatten(Tail(ss))
\* the lines and the rest the bytes received so far in the income buffer and
\* the bytes of a burst make
assembled(buffered, bytes) ==
  LET r == splitRuns(buffered \o bytes, <<>>, <<>>)
  IN [lines |-> flatten([k \in 1..Len(r.runs) |-> chunks(r.runs[k])]) \o fullChunks(r.open),
      rest |-> SubSeq(r.open, Len(r.open) - (Len(r.open) % ROW_LENGTH) + 1, Len(r.open))]

\* C22: the bytes drained from the serial line, after those already in the
\* income buffer, append the maximal runs of bytes >= 32 between bytes < 32,
\* each cut into pieces of ROW_LENGTH bytes, in their order; the unfinished
\* last piece stays in the income buffer.
C22_LineAssembler ==
  [][ev'.step = "SerialDrain" =>
       LET a == assembled(sr.incomeBuffer, ev'.input)
       IN /\ nAppends' = nAppends + Len(a.lines)
          /\ \A k \in 1..Len(a.lines) :
               sr'.buffer[(sr.writeIndex + k - 1) % SERIAL_BUFFER_ROWS] = a.lines[k]
          /\ sr'.writeIndex = (sr.writeIndex + Len(a.lines)) % SERIAL_BUFFER_ROWS
          /\ sr'.incomeBuffer = a.rest]_vars

\* "a" was in the income buffer when "e\r\nf" arrived: the line is "ae", the
\* '\n' appended nothing and "f" is in the income buffer
C22_Witness ==
  /\ ev.step = "SerialDrain" /\ ev.input = <<101, 13, 10, 102>>
  /\ lastLine = <<97, 101>>
  /\ sr.buffer[tailSlot] = <<97, 101>>
  /\ sr.incomeBuffer = <<102>>

ButtonEvent(b) == ev'.step = "Button" /\ ev'.input = b
\* the item of the keyboard under the cursor
keyUnderCursor == asciiList[dsp.menuIndex + 1]
\* the mode a button takes the program to, by the list of transitions
modeAfter(b) ==
  CASE programState = "PROGRAM_RECEIVING" /\ b = "SELECT" -> "PROGRAM_LETTER"
    [] programState = "PROGRAM_RECEIVING" /\ b = "NEXT" -> "PROGRAM_BDR"
    [] programState = "PROGRAM_RECEIVING" /\ b = "PREV" -> "PROGRAM_SCROLLING"
    [] programState = "PROGRAM_BDR" /\ b = "SELECT" -> "PROGRAM_RECEIVING"
    [] programState = "PROGRAM_LETTER" /\ b = "SELECT" /\ keyUnderCursor \in {24, 4} ->
         "PROGRAM_RECEIVING"
    [] programState = "PROGRAM_SCROLLING" /\ b = "SELECT" -> "PROGRAM_RECEIVING"
    [] OTHER -> programState

\* C23: a button changes programState along the transitions of modeAfter
\* only, and Select in PROGRAM_RECEIVING puts the cursor on item 0.
C23_ModeTransitions ==
  [][\A b \in MenuEvents : ButtonEvent(b) =>
       /\ programState' = modeAfter(b)
       /\ (programState = "PROGRAM_RECEIVING" /\ b = "SELECT") => dsp'.menuIndex = 0]_vars

\* Select on CANCEL has closed the keyboard
C23_Witness ==
  /\ ev.step = "Button" /\ ev.input = "SELECT"
  /\ programState = "PROGRAM_RECEIVING"
  /\ asciiList[dsp.menuIndex + 1] = 24
  /\ lastMenuAction = "SELECT"

\* C24: Next in PROGRAM_RECEIVING puts the cursor on the index of the active
\* baud rate in baudRateList; the cursor is below baudRateListCount while
\* the baud menu is open and below asciiListCount while the keyboard is
\* open; Next and Prev move it by dsp.menuStep modulo the length of the list.
C24_CursorInList ==
  /\ [](/\ programState = "PROGRAM_BDR" => dsp.menuIndex < baudRateListCount
        /\ programState = "PROGRAM_LETTER" => dsp.menuIndex < asciiListCount)
  /\ [][/\ (ButtonEvent("NEXT") /\ programState = "PROGRAM_RECEIVING") =>
             /\ dsp'.menuIndex < baudRateListCount
             /\ baudRateList[dsp'.menuIndex + 1] = baudRate
        /\ (ButtonEvent("NEXT") /\ programState = "PROGRAM_BDR") =>
             dsp'.menuIndex = (dsp.menuIndex + dsp'.menuStep) % baudRateListCount
        /\ (ButtonEvent("PREV") /\ programState = "PROGRAM_BDR") =>
             (dsp'.menuIndex + dsp'.menuStep) % baudRateListCount
               = dsp.menuIndex % baudRateListCount
        /\ (ButtonEvent("NEXT") /\ programState = "PROGRAM_LETTER") =>
             dsp'.menuIndex = (dsp.menuIndex + dsp'.menuStep) % asciiListCount
        /\ (ButtonEvent("PREV") /\ programState = "PROGRAM_LETTER") =>
             (dsp'.menuIndex + dsp'.menuStep) % asciiListCount
               = dsp.menuIndex % asciiListCount]_vars

\* C25: Select on a character of the keyboard, SPACE included, appends it
\* to sr.sendBuffer when that holds fewer than ROW_LENGTH - 2 characters and
\* leaves it unchanged otherwise; sr.sendBuffer never holds more, and the
\* line made of "> " and a sent text fits a row.
C25_SendBufferBound ==
  /\ [](Len(sr.sendBuffer) <= ROW_LENGTH - 2)
  /\ [][(ButtonEvent("SELECT") /\ programState = "PROGRAM_LETTER") =>
          /\ keyUnderCursor \notin {8, 24, 4} =>
               sr'.sendBuffer = IF Len(sr.sendBuffer) < ROW_LENGTH - 2
                                THEN Append(sr.sendBuffer, keyUnderCursor)
                                ELSE sr.sendBuffer
          /\ (keyUnderCursor = 4 /\ sr.sendBuffer # <<>>) =>
               /\ Len(lastLine') <= ROW_LENGTH
               /\ sr'.buffer[sr.writeIndex] = <<62, 32>> \o sr.sendBuffer]_vars

\* a SPACE made the text 30 characters long and the next Select on SPACE
\* was ignored
C25_Witness ==
  /\ ev.step = "Button" /\ ev.input = "SELECT"
  /\ programState = "PROGRAM_LETTER"
  /\ asciiList[dsp.menuIndex + 1] = 32
  /\ sr.sendBuffer = Rep(65, ROW_LENGTH - 3) \o <<32>>
  /\ budget = 0

PageRows == 8
\* C26: in PROGRAM_SCROLLING a Next that does not end on the tail slot moves
\* readIndex forward by one page of 8 slots, and a Prev that moves readIndex
\* and does not end on the boundary slot moves it backward by 8 slots.
C26_PageOfEight ==
  [][/\ (ScrollEvent("NEXT") /\ sr'.readIndex # tailSlot) =>
          sr'.readIndex = (sr.readIndex + PageRows) % SERIAL_BUFFER_ROWS
     /\ (ScrollEvent("PREV") /\ sr'.readIndex # sr.readIndex
           /\ sr'.readIndex # (sr.writeIndex + 7) % SERIAL_BUFFER_ROWS) =>
          sr'.readIndex = (sr.readIndex + SERIAL_BUFFER_ROWS - PageRows) % SERIAL_BUFFER_ROWS]_vars

\* C27: Prev in PROGRAM_RECEIVING opens PROGRAM_SCROLLING with readIndex on
\* the tail slot, and Select in PROGRAM_SCROLLING puts readIndex on the tail
\* slot and goes to PROGRAM_RECEIVING, wherever readIndex was.
C27_ScrollEnterLeave ==
  [][/\ (ButtonEvent("PREV") /\ programState = "PROGRAM_RECEIVING") =>
          /\ programState' = "PROGRAM_SCROLLING"
          /\ sr'.writeIndex = sr.writeIndex
          /\ sr'.readIndex = tailSlot
     /\ ScrollEvent("SELECT") =>
          /\ programState' = "PROGRAM_RECEIVING"
          /\ sr'.writeIndex = sr.writeIndex
          /\ sr'.readIndex = tailSlot]_vars

\* 33 lines arrived after the 39 of the device, while it was scrolling, and
\* Select went back to the tail
C27_Witness ==
  /\ ev.step = "Button" /\ ev.input = "SELECT"
  /\ programState = "PROGRAM_RECEIVING"
  /\ lastMenuAction = "SELECT"
  /\ dsp.menuIndex = 0
  /\ nAppends = 2 * SERIAL_BUFFER_ROWS - 8
  /\ sr.readIndex = tailSlot

\* the web payloads that are not a request: no JSON, an rqT that is not
\* known, a request without its value
NotARequest == {"malformed", "unknown", "bdrNoValue"}

\* C28: a web payload that is not a request leaves the ring, the income and
\* send buffers, the baud rate and the cursor as they are and writes nothing
\* to the serial line; the program goes to PROGRAM_ERROR, and a payload with
\* an unknown rqT is answered with an error text.
C28_BadPayloadFrame ==
  [][(ev'.step = "WsText" /\ ev'.input.kind \in NotARequest) =>
       /\ sr' = sr
       /\ nAppends' = nAppends
       /\ baudRate' = baudRate
       /\ eepromLog' = <<>>
       /\ dsp' = dsp
       /\ tx' = <<>>
       /\ programState' = "PROGRAM_ERROR"
       /\ out' = IF ev'.input.kind = "unknown"
                 THEN <<[ch |-> "ws_send", num |-> 0,
                         payload |-> TextMsg("ERROR - Received not recognised request")]>>
                 ELSE <<>>]_vars

\* C29: in PROGRAM_ERROR a button changes neither programState nor
\* beforeErrorState, the cursor, sr.sendBuffer, the baud rate, the ring and
\* its indices, and sends nothing.
C29_ButtonsInError ==
  [][\A b \in MenuEvents : (ButtonEvent(b) /\ programState = "PROGRAM_ERROR") =>
       /\ programState' = "PROGRAM_ERROR"
       /\ beforeErrorState' = beforeErrorState
       /\ errorEnterMS' = errorEnterMS
       /\ dsp'.menuIndex = dsp.menuIndex
       /\ sr' = sr
       /\ nAppends' = nAppends
       /\ baudRate' = baudRate
       /\ eepromLog' = <<>>
       /\ tx' = <<>> /\ out' = <<>>]_vars

\* Prev was pressed while the error of a web payload was on the display
C29_Witness ==
  /\ ev.step = "Button" /\ ev.input = "PREV"
  /\ programState = "PROGRAM_ERROR"
  /\ beforeErrorState = "PROGRAM_RECEIVING"
  /\ errStr = "Error during JSON parsing"
  /\ lastMenuAction = "PREV"

\* the bytes >= 32 of a byte sequence
printable(bytes) == SelectSeq(bytes, LAMBDA c : c >= 32)
\* the rows written by the last n appends, oldest first
newRows(n) ==
  [k \in 1..n |-> sr'.buffer[(sr.writeIndex + k - 1) % SERIAL_BUFFER_ROWS]]

\* C30: in a loop() iteration the income buffer is tested for the timeout
\* before the serial line is read: content older than SERIAL_MESSAGE_TIMEOUT
\* is appended as a line of its own, and the bytes read afterwards in the
\* same iteration make lines and income buffer content of their own.
C30_FlushBeforeDrain ==
  [][/\ pc = "flush" => (ev'.step = "IdleFlush" /\ pc' = "serial")
     /\ ev'.step = "SerialDrain" => (pc = "serial" /\ ev.step = "IdleFlush")
     /\ (pc = "flush" /\ sr.incomeBuffer # <<>>
           /\ u32gt(u32sub(programMS, sr.lastMessageMS), SERIAL_MESSAGE_TIMEOUT)) =>
          /\ nAppends' = nAppends + 1
          /\ lastLine' = sr.incomeBuffer
          /\ sr'.buffer[sr.writeIndex] = sr.incomeBuffer
          /\ sr'.incomeBuffer = <<>>
     /\ (ev'.step = "SerialDrain" /\ sr.incomeBuffer = <<>>) =>
          /\ nAppends' - nAppends < SERIAL_BUFFER_ROWS
          /\ flatten(newRows(nAppends' - nAppends)) \o sr'.incomeBuffer
               = printable(ev'.input)]_vars

\* "a" was received in the first iteration; the second one started 5250 ms
\* later, stored "a" as a line and then received "d\n"
C30_Witness ==
  /\ ev.step = "SerialDrain" /\ ev.input = <<100, 10>>
  /\ loops = 1
  /\ nAppends = 2
  /\ sr.buffer[0] = <<97>>
  /\ sr.buffer[1] = <<100>>
  /\ sr.incomeBuffer = <<>>

\* the smaller of two numbers
least(a, b) == IF a < b THEN a ELSE b

\* C31: no append stores an empty line: after a reset and nAppends appends
\* the rows 0 .. min(nAppends, SERIAL_BUFFER_ROWS) - 1 hold a line and the
\* other rows are empty.
C31_EmptyMeansUnwritten ==
  /\ [](\A i \in Rows : sr.buffer[i] # <<>> <=> i < least(nAppends, SERIAL_BUFFER_ROWS))
  /\ [][nAppends' > nAppends => lastLine' # <<>>]_vars

\* C32: in PROGRAM_RECEIVING, PROGRAM_BDR and PROGRAM_LETTER readIndex is the
\* tail slot.
C32_ReadIndexAtTail ==
  programState \in {"PROGRAM_RECEIVING", "PROGRAM_BDR", "PROGRAM_LETTER"}
    => sr.readIndex = tailSlot

\* a line was received while the baud menu was open, after the 39 or 44
\* lines of the device, and readIndex followed it
C32_Witness ==
  /\ ev.step = "SerialDrain" /\ ev.input = <<100, 10>>
  /\ programState = "PROGRAM_BDR"
  /\ lastLine = <<100>>
  /\ nAppends >= SERIAL_BUFFER_ROWS
  /\ sr.readIndex = tailSlot

\* C33: while an error that was raised in PROGRAM_SCROLLING is shown, and
\* when it is dismissed to PROGRAM_SCROLLING, readIndex stays on its slot as
\* long as the ring is not reset, also when lines are appended.
C33_ScrollKeptOverError ==
  [][(/\ programState = "PROGRAM_ERROR" /\ beforeErrorState = "PROGRAM_SCROLLING"
      /\ programState' \in {"PROGRAM_ERROR", "PROGRAM_SCROLLING"}
      /\ eepromLog' = <<>>)
     => sr'.readIndex = sr.readIndex]_vars

\* C34: sr.sendBuffer is empty in PROGRAM_RECEIVING, PROGRAM_BDR and
\* PROGRAM_SCROLLING, and an "inp" request of a web client or of the broker
\* leaves sr.sendBuffer as it is.
C34_SendBufferOnlyInKeyboard ==
  /\ [](programState \in {"PROGRAM_RECEIVING", "PROGRAM_BDR", "PROGRAM_SCROLLING"}
          => sr.sendBuffer = <<>>)
  /\ [][(ev'.step \in {"WsText", "MqttMessage"} /\ ev'.input.kind = "inp")
          => sr'.sendBuffer = sr.sendBuffer]_vars

\* a web client sent "Hi" while "A" was typed on the keyboard
C34_Witness ==
  /\ ev.step = "WsText" /\ ev.input.kind = "inp" /\ ev.input.text = <<72, 105>>
  /\ programState = "PROGRAM_LETTER"
  /\ sr.sendBuffer = <<65>>
  /\ tx = <<72, 105, 13, 10>>
  /\ lastLine = <<62, 32, 72, 105>>

====
